---- MODULE Spec2Model ----
(***************************************************************************)
(* observe_backup_msbs (src/client/observe_backup_msbs.py): the start-up   *)
(* tool checks, the ObserveBackup window, its search() and send_to_queue() *)
(* handlers and the per-row callbacks, as a state machine.                 *)
(*                                                                         *)
(* Strings the program inspects (directory and file names, paths) are      *)
(* sequences of one-character strings, so that the regular expressions,    *)
(* the lexical sort, endswith/slicing and os.path.join are computed as the *)
(* code computes them.  Messages and metadata values, which the program    *)
(* only passes on, are TLA+ strings.                                       *)
(*                                                                         *)
(* Environment: the snapshot tree is read-only and follows the layout      *)
(* written by fetch_backup_msbs (date entries are directories, a sidecar   *)
(* that exists is a well-formed document holding the nine elements).       *)
(*                                                                         *)
(* Spec is the whole program, from the tool checks to the closing of the   *)
(* window, over a few snapshot trees.  SpecSearch starts in the main loop  *)
(* and presses Search, over every small tree: which time slots a date      *)
(* directory holds, whether they are populated, which files lie there.     *)
(***************************************************************************)
EXTENDS Naturals, Sequences, FiniteSets, TLC

VARIABLES
    pc,       \* position of the script: the two tool checks, start, mainloop, exit
    tools,    \* outcome of each health-check invocation so far
    status,   \* exit status of the process; it counts once pc = "exit"
    stderr,   \* first line of each diagnostic printed on standard error
    root,     \* args.directory
    fs,       \* the snapshot tree under args.directory
    dates,    \* module-level list of date directories
    app,      \* None or the ObserveBackup frame
    sel,      \* the StringVars date, band, instrument, query
    results,  \* self.results: None or the current LabelFrame
    frames,   \* the results LabelFrames alive in the window
    last      \* what the most recent handler read and did (calls, dialogs)

vars == <<pc, tools, status, stderr, root, fs, dates, app, sel, results, frames, last>>

\* ---------------------------------------------------------------- bounds

MaxSlots == 2   \* entries of a date directory
MaxHour == 2    \* the clock and the slot names range over the hours 0..MaxHour
MaxMsbs == 2    \* observations (definition files) a snapshot may hold per directory
MaxFiles == 2   \* entries of an observation directory

\* ---------------------------------------------------------------- strings

None == "None"

\* The characters used, in ASCII order.
ASCII ==
    << " ", "-", ".", "/", "0", "1", "2", "3", "4", "5", "6", "7", "8", "9",
       "A", "B", "C", "D", "E", "F", "G", "H", "I", "J", "K", "L", "M", "N",
       "O", "P", "Q", "R", "S", "T", "U", "V", "W", "X", "Y", "Z", "_",
       "a", "b", "c", "d", "e", "f", "g", "h", "i", "j", "k", "l", "m", "n",
       "o", "p", "q", "r", "s", "t", "u", "v", "w", "x", "y", "z" >>

Ord(c) == CHOOSE i \in 1..Len(ASCII) : ASCII[i] = c

Digits == {"0", "1", "2", "3", "4", "5", "6", "7", "8", "9"}

Digit(n) == <<"0", "1", "2", "3", "4", "5", "6", "7", "8", "9">>[n + 1]

\* Python's comparison of two strings: first differing character, else length.
RECURSIVE StrLess(_, _)
StrLess(a, b) ==
    IF b = <<>> THEN FALSE
    ELSE IF a = <<>> THEN TRUE
    ELSE IF Head(a) = Head(b) THEN StrLess(Tail(a), Tail(b))
    ELSE Ord(Head(a)) < Ord(Head(b))

\* sorted(): the list of the (distinct) names of a set, smallest first.
RECURSIVE sorted(_)
sorted(S) ==
    IF S = {} THEN <<>>
    ELSE LET m == CHOOSE x \in S : \A y \in S \ {x} : StrLess(x, y)
         IN <<m>> \o sorted(S \ {m})

\* list.index(x)
index(list, x) == CHOOSE i \in 1..Len(list) : list[i] = x

\* str.endswith
endswith(s, suffix) ==
    /\ Len(s) >= Len(suffix)
    /\ SubSeq(s, Len(s) - Len(suffix) + 1, Len(s)) = suffix

\* ^\d\d\d\d-\d\d-\d\d$
valid_date(x) ==
    /\ Len(x) = 10
    /\ \A i \in {1, 2, 3, 4, 6, 7, 9, 10} : x[i] \in Digits
    /\ x[5] = "-" /\ x[8] = "-"

\* ^\d\d-\d\d-\d\d$
valid_time(x) ==
    /\ Len(x) = 8
    /\ \A i \in {1, 2, 4, 5, 7, 8} : x[i] \in Digits
    /\ x[3] = "-" /\ x[6] = "-"

\* strftime('%H-%M-%S') of a time of day <<hour, minute, second>>
strftime(now) ==
    << Digit(now[1] \div 10), Digit(now[1] % 10), "-",
       Digit(now[2] \div 10), Digit(now[2] % 10), "-",
       Digit(now[3] \div 10), Digit(now[3] % 10) >>

\* strftime('%Y-%m-%d') of the day d of May 2013, the form of a date directory
DateName(d) ==
    <<"2", "0", "1", "3", "-", "0", "5", "-", Digit(d \div 10), Digit(d % 10)>>

\* os.path.join of two components
join2(a, b) ==
    IF b # <<>> /\ Head(b) = "/" THEN b
    ELSE IF a = <<>> \/ a[Len(a)] = "/" THEN a \o b
    ELSE a \o <<"/">> \o b

\* os.path.join of a list of components
RECURSIVE join(_)
join(parts) ==
    IF Len(parts) = 1 THEN parts[1]
    ELSE join2(join(SubSeq(parts, 1, Len(parts) - 1)), parts[Len(parts)])

\* ---------------------------------------------------------------- tables

bands ==
    ( <<"B", "a", "n", "d", " ", "1">> :> <<"b", "a", "n", "d", "_", "1">> ) @@
    ( <<"B", "a", "n", "d", " ", "2">> :> <<"b", "a", "n", "d", "_", "2">> ) @@
    ( <<"B", "a", "n", "d", " ", "3">> :> <<"b", "a", "n", "d", "_", "3">> ) @@
    ( <<"B", "a", "n", "d", " ", "4">> :> <<"b", "a", "n", "d", "_", "4">> ) @@
    ( <<"B", "a", "n", "d", " ", "5">> :> <<"b", "a", "n", "d", "_", "5">> )

instruments ==
    ( <<"S", "C", "U", "B", "A", "-", "2">> :> <<"s", "c", "u", "b", "a", "-", "2">> ) @@
    ( <<"H", "A", "R", "P">> :> <<"h", "a", "r", "p">> ) @@
    ( <<"R", "x", "A", "3">> :> <<"r", "x", "a", "3">> )

queries ==
    ( <<"J", "L", "S">> :> <<"j", "l", "s">> ) @@
    ( <<"P", "I", " ", "p", "r", "o", "j", "e", "c", "t", "s">> :> <<"p", "i">> ) @@
    ( <<"N", "o", "t", "h", "i", "n", "g", " ", "l", "e", "f", "t">> :> <<"n", "l">> )

band_list == sorted(DOMAIN bands)
instrument_list == sorted(DOMAIN instruments)
query_list == sorted(DOMAIN queries)

\* ---------------------------------------------------------------- the snapshot tree

\* The existence check left out.
exists_unchecked(tree, path) == TRUE

\* A tree is the set of the paths of its nodes (directories and files).
exists(tree, path) == path \in tree

\* os.listdir: the names of the nodes directly inside a directory.
listdir(tree, path) ==
    LET prefix == join2(path, <<>>)
        n == Len(prefix)
    IN { SubSeq(p, n + 1, Len(p)) :
           p \in { q \in tree : /\ Len(q) > n
                                /\ SubSeq(q, 1, n) = prefix
                                /\ \A i \in (n + 1)..Len(q) : q[i] # "/" } }

\* ---------------------------------------------------------------- search()

\* No wrap-around: past the last slot, the clock reading itself is kept.
best_time_nowrap(times, current_time) ==
    IF current_time \in times THEN current_time
    ELSE LET list == sorted(times \cup {current_time})
             i == index(list, current_time)
         IN IF i = Len(list) THEN list[i] ELSE list[i + 1]

\* Lines 153-162: the time slot chosen among the names in `times` (the names of
\* the date directory that match valid_time) for the clock reading current_time.
best_time(times, current_time) ==
    IF current_time \in times THEN current_time
    ELSE LET list == sorted(times \cup {current_time})
             i == index(list, current_time)
         IN IF i = Len(list) THEN list[1] ELSE list[i + 1]

\* The instrument segment joined before the band segment.
directory_swapped(dir, date, time, band, instrument, query) ==
    join(<<dir, date, time, instruments[instrument], bands[band], queries[query]>>)

\* Lines 164-170: the directory searched.
directory(dir, date, time, band, instrument, query) ==
    join(<<dir, date, time, bands[band], instruments[instrument], queries[query]>>)

\* Lines 197-210: the nine metadata fields of an observation.  The sidecar, when
\* it exists, is parsed and the text of each element taken.
sidecar_text == [coordstype |-> "RADEC", ra |-> "12:34:56", dec |-> "-01:02:03",
                 az |-> "180.0", airmass |-> "1.234", type |-> "science",
                 timeest |-> "1800.0", remaining |-> "2", msbid |-> "0123abcd"]

blank == [coordstype |-> "", ra |-> "", dec |-> "", az |-> "", airmass |-> "",
          type |-> "", timeest |-> "", remaining |-> "", msbid |-> ""]

\* The else branch leaves msbid unset.
msb_fields_unset(tree, infofile) ==
    IF exists(tree, infofile) THEN sidecar_text ELSE [blank EXCEPT !.msbid = None]

msb_fields(tree, infofile) ==
    IF exists(tree, infofile) THEN sidecar_text ELSE blank

\* Lines 248-255: the closure made for a button; it keeps its own obj and file.
callback_maker(obj, file) == [obj |-> obj, file |-> file]

\* Lines 194-227: the row (label and button) built for one definition file.
msb_row(tree, dir, file) ==
    LET xmlfile == join(<<dir, file>>)
        infofile == join(<<dir, SubSeq(file, 1, Len(file) - 4) \o <<".", "i", "n", "f", "o">>>>)
    IN [ description |-> [file |-> file] @@ msb_fields(tree, infofile),
         command |-> callback_maker("self", xmlfile) ]

\* Lines 190-192: the definition files of a directory, in the order listed.
RECURSIVE xml_only(_)
xml_only(files) ==
    IF files = <<>> THEN <<>>
    ELSE IF endswith(Head(files), <<".", "x", "m", "l">>)
         THEN <<Head(files)>> \o xml_only(Tail(files))
         ELSE xml_only(Tail(files))

\* The closures made inside the loop: every button holds the last file.
msb_rows_latebound(tree, dir) ==
    LET files == xml_only(sorted(listdir(tree, dir)))
    IN [i \in 1..Len(files) |->
          [msb_row(tree, dir, files[i]) EXCEPT
             !.command = callback_maker("self", join(<<dir, files[Len(files)]>>))]]

\* Lines 190-227: the rows of the results frame.
msb_rows(tree, dir) ==
    LET files == xml_only(sorted(listdir(tree, dir)))
    IN [i \in 1..Len(files) |-> msb_row(tree, dir, files[i])]

\* Lines 146-227: what search() builds from the tree, the selections and the
\* clock: the new results frame, the names and time it read, and the exception
\* it ends with, if any.
search(tree, dir, s, now) ==
    LET times == {time \in listdir(tree, join(<<dir, s.date>>)) : valid_time(time)}
        current_time == strftime(now)
        best == best_time(times, current_time)
        d == directory(dir, s.date, best, s.band, s.instrument, s.query)
        head == [directory |-> d, time |-> best]
        read == [op |-> "search", times |-> times, current_time |-> current_time]
    IN IF ~exists(tree, d)
       THEN [frame |-> head @@ [noresults |-> TRUE, rows |-> <<>>],
             last |-> read @@ [error |-> None]]
       ELSE IF d \notin tree
       THEN [frame |-> head @@ [noresults |-> FALSE, rows |-> <<>>],
             last |-> read @@ [error |-> "OSError"]]
       ELSE [frame |-> head @@ [noresults |-> FALSE, rows |-> msb_rows(tree, d)],
             last |-> read @@ [error |-> None]]

\* The old results frame is not destroyed.
destroy_nothing(live, old) == live

\* Lines 172-173: the frames left in the window once the old results are destroyed.
destroy_results(live, old) ==
    IF old # <<>> THEN live \ {old[1]} ELSE live

\* ---------------------------------------------------------------- send_to_queue()

whitespace == {" ", "\n", "\t"}

RECURSIVE lstrip(_)
lstrip(s) ==
    IF s # <<>> /\ Head(s) \in whitespace THEN lstrip(Tail(s)) ELSE s

RECURSIVE rstrip(_)
rstrip(s) ==
    IF s # <<>> /\ s[Len(s)] \in whitespace THEN rstrip(SubSeq(s, 1, Len(s) - 1)) ELSE s

\* str.strip
strip(s) == rstrip(lstrip(s))

\* A failure of ditscmd is swallowed: no dialog.
send_to_queue_silent(xmlfile, translate, addback) ==
    LET run1 == <<"jcmttranslator", xmlfile>>
        run2 == <<"ditscmd", "OCSQUEUE", "ADDBACK", strip(translate.output)>>
    IN IF translate.raised # None
       THEN [op |-> "send_to_queue", xmlfile |-> xmlfile, calls |-> <<run1>>,
             dialog |-> <<"Error sending to queue",
                          "Could not translate observation.", translate.raised>>]
       ELSE [op |-> "send_to_queue", xmlfile |-> xmlfile, calls |-> <<run1, run2>>,
             dialog |-> <<>>]

\* The return after the translator's failure is missing: ditscmd runs anyway.
send_to_queue_no_return(xmlfile, translate, addback) ==
    LET run1 == <<"jcmttranslator", xmlfile>>
        run2 == <<"ditscmd", "OCSQUEUE", "ADDBACK", strip(translate.output)>>
    IN [op |-> "send_to_queue", xmlfile |-> xmlfile, calls |-> <<run1, run2>>,
        dialog |-> IF translate.raised # None
                   THEN <<"Error sending to queue",
                          "Could not translate observation.", translate.raised>>
                   ELSE IF addback.raised # None
                   THEN <<"Error sending to queue",
                          "Could not add observation to queue.", addback.raised>>
                   ELSE <<>>]

\* Lines 229-245.  translate and addback are what the two external processes
\* do when run: [raised |-> None or the exception, output |-> standard output].
send_to_queue(xmlfile, translate, addback) ==
    LET run1 == <<"jcmttranslator", xmlfile>>
        manifest == strip(translate.output)
        run2 == <<"ditscmd", "OCSQUEUE", "ADDBACK", manifest>>
    IN IF translate.raised # None
       THEN [op |-> "send_to_queue", xmlfile |-> xmlfile, calls |-> <<run1>>,
             dialog |-> <<"Error sending to queue",
                          "Could not translate observation.", translate.raised>>]
       ELSE IF addback.raised # None
       THEN [op |-> "send_to_queue", xmlfile |-> xmlfile, calls |-> <<run1, run2>>,
             dialog |-> <<"Error sending to queue",
                          "Could not add observation to queue.", addback.raised>>]
       ELSE [op |-> "send_to_queue", xmlfile |-> xmlfile, calls |-> <<run1, run2>>,
             dialog |-> <<>>]

\* ---------------------------------------------------------------- start-up

\* What running a tool can do: succeed, fail to launch (no such file, or another
\* OSError), or exit with a non-zero status (CalledProcessError).
Outcomes == {"ok", "ENOENT", "OSError", "CalledProcessError"}

\* Lines 271-287: the check of jcmttranslator; the diagnostic and whether exit(1) runs.
check_jcmttranslator(outcome) ==
    CASE outcome = "ENOENT" ->
           [exit |-> TRUE, message |-> "Could not find the JCMT translator"]
      [] outcome = "OSError" ->
           [exit |-> TRUE, message |-> "Could not launch the JCMT translator"]
      [] outcome = "CalledProcessError" ->
           [exit |-> TRUE, message |-> "Error testing the JCMT translator"]
      [] OTHER -> [exit |-> FALSE, message |-> ""]

\* The exit(1) after "Could not launch ditscmd" is missing.
check_ditscmd_no_exit(outcome) ==
    CASE outcome = "ENOENT" ->
           [exit |-> TRUE, message |-> "Could not find ditscmd"]
      [] outcome = "OSError" ->
           [exit |-> FALSE, message |-> "Could not launch ditscmd"]
      [] outcome = "CalledProcessError" ->
           [exit |-> TRUE, message |-> "Error testing ditscmd"]
      [] OTHER -> [exit |-> FALSE, message |-> ""]

\* Lines 289-305: the check of ditscmd.
check_ditscmd(outcome) ==
    CASE outcome = "ENOENT" ->
           [exit |-> TRUE, message |-> "Could not find ditscmd"]
      [] outcome = "OSError" ->
           [exit |-> TRUE, message |-> "Could not launch ditscmd"]
      [] outcome = "CalledProcessError" ->
           [exit |-> TRUE, message |-> "Error testing ditscmd"]
      [] OTHER -> [exit |-> FALSE, message |-> ""]

\* Lines 105-135: the initial values of the four StringVars.
initial_selection(ds) ==
    [ date |-> ds[Len(ds)],
      band |-> band_list[1],
      instrument |-> instrument_list[Len(instrument_list)],
      query |-> query_list[1] ]

\* ---------------------------------------------------------------- inputs

\* args.directory, as typed: with or without a trailing separator.
Roots == { <<"/", "b", "a", "c", "k", "u", "p">>, <<"/", "b", "a", "c", "k", "u", "p", "/">> }

README == <<"R", "E", "A", "D", "M", "E">>

\* Names that may lie in a date directory.
SlotNames == { strftime(<<h, 0, 0>>) : h \in 0..MaxHour } \cup { <<"t", "m", "p">> }

\* Readings of the clock.
ClockTimes == { <<h, 0, 0>> : h \in 0..MaxHour }

\* Names that may lie in an observation directory: per observation a
\* definition file and a sidecar.
Letter(i) == <<"a", "b", "c", "d">>[i]

XmlName(i) == <<Letter(i), ".", "x", "m", "l">>
InfoName(i) == <<Letter(i), ".", "i", "n", "f", "o">>

FileNames == UNION { { XmlName(i), InfoName(i) } : i \in 1..MaxMsbs }

\* The entries of the menus the user picks from in Spec.
band_menu == { band_list[1], band_list[2] }
instrument_menu == { instrument_list[2], instrument_list[3] }
query_menu == DOMAIN queries

\* A date directory with the entries `slots`, of which those in `populated` hold
\* the directory of the mapped segments `sub`, holding `files`.
Tree(datedir, slots, populated, sub, files) ==
    {datedir}
    \cup { join2(datedir, t) : t \in slots }
    \cup UNION { { join(<<datedir, t, sub[1]>>),
                   join(<<datedir, t, sub[1], sub[2]>>),
                   join(<<datedir, t, sub[1], sub[2], sub[3]>>) } : t \in populated }
    \cup { join(<<datedir, t, sub[1], sub[2], sub[3], f>>) : t \in populated, f \in files }

Small(S, n) == { T \in SUBSET S : Cardinality(T) <= n }

\* Every small tree holding one date directory: its slots, all of them populated
\* for the segments `sub` or none, and the files there.
Trees(dir, date, sub) ==
    { {dir} \cup Tree(join(<<dir, date>>), c.slots,
                      IF c.populated THEN c.slots ELSE {}, sub, c.files) :
        c \in { x \in [ slots : Small(SlotNames, MaxSlots),
                        populated : BOOLEAN,
                        files : Small(FileNames, MaxFiles) ] :
                  (~x.populated \/ x.slots = {}) => (x.files = {} /\ ~x.populated) } }

\* The files fetched for a query type in the trees of Spec.
FetchedFiles(q) ==
    CASE q = <<"j", "l", "s">> -> { XmlName(1), InfoName(1), XmlName(2) }
      [] q = <<"p", "i">> -> { XmlName(1) }
      [] OTHER -> {}

Segments ==
    { <<bands[b], instruments[i], queries[q]>> :
        b \in band_menu, i \in instrument_menu, q \in query_menu }

\* The trees of Spec, one per set of names under the root: the first date holds
\* an unpopulated slot, a populated one and a stray entry; a later date holds
\* nothing (its fetch failed).
Snapshot(dir, listing) ==
    {dir}
    \cup { join2(dir, n) : n \in listing }
    \cup ( IF DateName(1) \in listing
           THEN UNION { Tree(join(<<dir, DateName(1)>>),
                             { strftime(<<0, 0, 0>>), strftime(<<1, 0, 0>>), <<"t", "m", "p">> },
                             { strftime(<<1, 0, 0>>) }, sub, FetchedFiles(sub[3])) :
                        sub \in Segments }
           ELSE {} )

Snapshots(dir) ==
    { Snapshot(dir, listing \cup {README}) : listing \in SUBSET { DateName(1), DateName(2) } }

\* What the translator and the queue tool may do when run on a definition file.
Translations(xmlfile) ==
    { [raised |-> "OSError", output |-> <<>>],
      [raised |-> "CalledProcessError", output |-> <<>>],
      [raised |-> None, output |-> xmlfile \o <<".", "m", "\n">>] }

Addbacks ==
    { [raised |-> "CalledProcessError", output |-> <<>>],
      [raised |-> None, output |-> <<>>] }

NotRun == [raised |-> None, output |-> <<>>]

\* ---------------------------------------------------------------- the program

NoSelection == [date |-> <<>>, band |-> <<>>, instrument |-> <<>>, query |-> <<>>]

Init ==
    /\ pc = "check_jcmttranslator"
    /\ tools = [jcmttranslator |-> "unchecked", ditscmd |-> "unchecked"]
    /\ status = 0
    /\ stderr = <<>>
    /\ root \in Roots
    /\ fs \in Snapshots(root)
    /\ dates = <<>>
    /\ app = None
    /\ sel = NoSelection
    /\ results = <<>>
    /\ frames = {}
    /\ last = [op |-> "none"]

\* Lines 271-287.
CheckTranslator ==
    /\ pc = "check_jcmttranslator"
    /\ \E outcome \in Outcomes :
         LET r == check_jcmttranslator(outcome)
         IN /\ tools' = [tools EXCEPT !.jcmttranslator = outcome]
            /\ IF r.exit
               THEN /\ pc' = "exit"
                    /\ status' = 1
                    /\ stderr' = Append(stderr, r.message)
               ELSE /\ pc' = "check_ditscmd"
                    /\ UNCHANGED <<status, stderr>>
    /\ UNCHANGED <<root, fs, dates, app, sel, results, frames, last>>

\* Lines 289-305.
CheckDitscmd ==
    /\ pc = "check_ditscmd"
    /\ \E outcome \in Outcomes :
         LET r == check_ditscmd(outcome)
         IN /\ tools' = [tools EXCEPT !.ditscmd = outcome]
            /\ IF r.exit
               THEN /\ pc' = "exit"
                    /\ status' = 1
                    /\ stderr' = Append(stderr, r.message)
               ELSE /\ pc' = "start"
                    /\ UNCHANGED <<status, stderr>>
    /\ UNCHANGED <<root, fs, dates, app, sel, results, frames, last>>

\* Lines 310-315 with ObserveBackup.__init__ (lines 98-143): the dates are read,
\* the frame is built and the main loop entered.  dates[-1] of an empty list
\* raises IndexError, which nothing catches: the traceback is printed and the
\* process ends with status 1.
Start ==
    /\ pc = "start"
    /\ LET ds == sorted({x \in listdir(fs, root) : valid_date(x)})
       IN /\ dates' = ds
          /\ IF ds = <<>>
             THEN /\ pc' = "exit"
                  /\ status' = 1
                  /\ stderr' = Append(stderr, "IndexError: list index out of range")
                  /\ UNCHANGED <<app, sel>>
             ELSE /\ pc' = "mainloop"
                  /\ app' = "ObserveBackup"
                  /\ sel' = initial_selection(ds)
                  /\ UNCHANGED <<status, stderr>>
    /\ UNCHANGED <<tools, root, fs, results, frames, last>>

\* The user picks an entry of a menu (Tk sets the StringVar).
SelectDate ==
    /\ pc = "mainloop"
    /\ \E d \in {dates[i] : i \in 1..Len(dates)} : sel' = [sel EXCEPT !.date = d]
    /\ last' = [op |-> "select"]
    /\ UNCHANGED <<pc, tools, status, stderr, root, fs, dates, app, results, frames>>

SelectBand ==
    /\ pc = "mainloop"
    /\ \E b \in band_menu : sel' = [sel EXCEPT !.band = b]
    /\ last' = [op |-> "select"]
    /\ UNCHANGED <<pc, tools, status, stderr, root, fs, dates, app, results, frames>>

SelectInstrument ==
    /\ pc = "mainloop"
    /\ \E i \in instrument_menu : sel' = [sel EXCEPT !.instrument = i]
    /\ last' = [op |-> "select"]
    /\ UNCHANGED <<pc, tools, status, stderr, root, fs, dates, app, results, frames>>

SelectQuery ==
    /\ pc = "mainloop"
    /\ \E q \in query_menu : sel' = [sel EXCEPT !.query = q]
    /\ last' = [op |-> "select"]
    /\ UNCHANGED <<pc, tools, status, stderr, root, fs, dates, app, results, frames>>

\* The Search button: search() (lines 145-227).
Search ==
    /\ pc = "mainloop"
    /\ \E now \in ClockTimes :
         LET r == search(fs, root, sel, now)
         IN /\ results' = <<r.frame>>
            /\ frames' = destroy_results(frames, results) \cup {r.frame}
            /\ last' = r.last @@ [destroyed |-> results]
    /\ UNCHANGED <<pc, tools, status, stderr, root, fs, dates, app, sel>>

\* A "Send to queue" button of a frame in the window: its command runs
\* send_to_queue (lines 229-245) with the file the closure holds.
Press ==
    /\ pc = "mainloop"
    /\ \E frame \in frames :
       \E i \in 1..Len(frame.rows) :
         LET xmlfile == frame.rows[i].command.file
         IN \E translate \in Translations(xmlfile) :
            \E addback \in (IF translate.raised = None THEN Addbacks ELSE {NotRun}) :
              last' = send_to_queue(xmlfile, translate, addback)
                        @@ [frame |-> frame, row |-> i,
                            translate |-> translate, addback |-> addback]
    /\ UNCHANGED <<pc, tools, status, stderr, root, fs, dates, app, sel, results, frames>>

\* The user closes the window: mainloop() returns and the script ends.
Close ==
    /\ pc = "mainloop"
    /\ pc' = "exit"
    /\ status' = 0
    /\ UNCHANGED <<tools, stderr, root, fs, dates, app, sel, results, frames, last>>

Next ==
    \/ CheckTranslator
    \/ CheckDitscmd
    \/ Start
    \/ SelectDate
    \/ SelectBand
    \/ SelectInstrument
    \/ SelectQuery
    \/ Search
    \/ Press
    \/ Close

Spec == Init /\ [][Next]_vars

\* The program in its main loop, both tools found, before the first search, over
\* every small tree and every query type.
InitSearch ==
    /\ pc = "mainloop"
    /\ tools = [jcmttranslator |-> "ok", ditscmd |-> "ok"]
    /\ status = 0
    /\ stderr = <<>>
    /\ root = <<"/", "b", "a", "c", "k", "u", "p">>
    /\ dates = <<DateName(1)>>
    /\ app = "ObserveBackup"
    /\ sel \in [ date : {DateName(1)}, band : {band_list[1]},
                 instrument : {instrument_list[Len(instrument_list)]},
                 query : query_menu ]
    /\ fs \in Trees(root, sel.date,
                    <<bands[sel.band], instruments[sel.instrument], queries[sel.query]>>)
    /\ results = <<>>
    /\ frames = {}
    /\ last = [op |-> "none"]

NextSearch == Search

SpecSearch == InitSearch /\ [][NextSearch]_vars

\* ---------------------------------------------------------------- claims

Searched == last.op = "search"
Sent == last.op = "send_to_queue"

\* The labels of the date directory lexically greater than the clock reading.
Later == { x \in last.times : StrLess(last.current_time, x) }

\* The lexically smallest name of a non-empty set.
Smallest(S) == CHOOSE x \in S : \A y \in S : ~StrLess(y, x)

\* C1: after search() over a non-empty set S of time-slot labels and a clock
\* reading t, the slot shown is t when t is in S, otherwise the smallest label
\* of S greater than t, otherwise (none greater) the smallest label of S; it is
\* always a member of S.
C1_SlotSelection ==
    (Searched /\ last.times # {}) =>
        LET S == last.times
            t == last.current_time
            slot == results[1].time
        IN /\ slot \in S
           /\ t \in S => slot = t
           /\ (t \notin S /\ Later # {}) => slot = Smallest(Later)
           /\ (t \notin S /\ Later = {}) => slot = Smallest(S)

\* A search that wrapped around: two labels, both before the clock reading.
C1_Witness ==
    /\ Searched
    /\ Cardinality(last.times) = 2
    /\ last.current_time \notin last.times
    /\ Later = {}
    /\ results[1].time = Smallest(last.times)

\* C2: when the date directory holds no time-slot label, search() selects the
\* clock reading itself, the directory built from it does not exist, and the
\* search ends with "No results", no row and no exception.
C2_EmptyDate ==
    (Searched /\ last.times = {}) =>
        /\ results[1].time = last.current_time
        /\ results[1].directory \notin fs
        /\ results[1].noresults
        /\ results[1].rows = <<>>
        /\ last.error = None

\* A search of a date directory that holds one entry, not a time slot.
C2_Witness ==
    /\ Searched
    /\ last.times = {}
    /\ join(<<root, sel.date, <<"t", "m", "p">>>>) \in fs
    /\ results[1].noresults

\* C3: a tool that is missing or fails its health check ends the process with
\* a diagnostic and a non-zero status before any interactive state exists: the
\* dates are not read, no ObserveBackup is built, the main loop is not entered.
\* The translator is checked first, ditscmd only once the translator passed.
C3_StartupChecks ==
    /\ tools.ditscmd # "unchecked" => tools.jcmttranslator = "ok"
    /\ (tools.jcmttranslator \in Outcomes \ {"ok"} \/ tools.ditscmd \in Outcomes \ {"ok"}) =>
          /\ pc = "exit"
          /\ status # 0
          /\ Len(stderr) = 1 /\ stderr[1] # ""
          /\ dates = <<>>
          /\ app = None
          /\ sel = NoSelection
          /\ results = <<>> /\ frames = {}

\* ditscmd is found but cannot be launched, after the translator passed.
C3_Witness ==
    /\ tools.jcmttranslator = "ok"
    /\ tools.ditscmd = "OSError"
    /\ pc = "exit"
    /\ stderr = <<"Could not launch ditscmd">>

\* C4: whenever both tools passed their check, the process reaches the
\* interactive session and runs until the user closes the window, whatever the
\* root directory holds: past the start it is in the main loop, or it has ended
\* with status 0 after the window was closed.
C4_ReachesSession ==
    (tools.jcmttranslator = "ok" /\ tools.ditscmd = "ok" /\ pc # "start") =>
        /\ app = "ObserveBackup"
        /\ pc = "mainloop" \/ (pc = "exit" /\ status = 0)

\* The failure of the process send_to_queue ran last, or None.
Failure ==
    IF last.translate.raised # None THEN last.translate.raised ELSE last.addback.raised

\* C5: when the translator or the queue tool fails in send_to_queue, the error
\* text is shown in an error dialog, the session goes on, and the results shown
\* and the selections are what they were, so a submit action can be pressed again.
C5_FailedSubmission ==
    [][ (last' # last /\ last'.op = "send_to_queue" /\ Failure' # None) =>
          /\ Len(last'.dialog) = 3
          /\ last'.dialog[1] = "Error sending to queue"
          /\ last'.dialog[3] = Failure'
          /\ pc' = "mainloop"
          /\ sel' = sel /\ results' = results /\ frames' = frames
          /\ last'.frame \in frames' ]_vars

\* The queue tool failed for a row while the results are shown.
C5_Witness ==
    /\ Sent
    /\ last.translate.raised = None
    /\ last.addback.raised = "CalledProcessError"
    /\ last.dialog # <<>>
    /\ pc = "mainloop"
    /\ results # <<>> /\ last.frame = results[1]

\* C6: a press runs the translator first, on the definition file of the button;
\* ditscmd OCSQUEUE ADDBACK runs at most once, only after the translator
\* succeeded, with the manifest the translator printed for that file; it does
\* not run when the translator failed.
C6_TwoStepOrder ==
    Sent =>
        /\ last.calls[1] = <<"jcmttranslator", last.frame.rows[last.row].command.file>>
        /\ last.translate.raised # None => Len(last.calls) = 1
        /\ last.translate.raised = None =>
             /\ Len(last.calls) = 2
             /\ last.calls[2][1] = "ditscmd"
             /\ last.calls[2][2] = "OCSQUEUE"
             /\ last.calls[2][3] = "ADDBACK"
             /\ Len(last.calls[2]) = 4
             /\ last.calls[2][4] \o <<"\n">> = last.translate.output

\* Both processes ran and succeeded.
C6_Witness ==
    /\ Sent
    /\ last.translate.raised = None
    /\ last.addback.raised = None
    /\ Len(last.calls) = 2

\* C7: the window holds exactly the results frame of the most recent search
\* (none before the first search): no frame, row or button of an earlier search
\* is left, also when the most recent search ended in "No results".
C7_ResultsReplaced ==
    /\ results = <<>> => frames = {}
    /\ results # <<>> => frames = {results[1]}
    /\ (Searched /\ last.destroyed # <<>> /\ last.destroyed[1] # results[1]) =>
          last.destroyed[1] \notin frames

\* A search ending in "No results" replaced a frame that held rows.
C7_Witness ==
    /\ Searched
    /\ last.destroyed # <<>>
    /\ Len(last.destroyed[1].rows) > 0
    /\ results[1].noresults
    /\ frames = {results[1]}

\* The root with its separator.
Prefix == IF root[Len(root)] = "/" THEN root ELSE root \o <<"/">>

\* The directory of the search up to and without the query-type segment.
Stem ==
    Prefix \o sel.date \o <<"/">> \o results[1].time \o <<"/">> \o bands[sel.band]
           \o <<"/">> \o instruments[sel.instrument] \o <<"/">>

\* C8: the directory searched is the root, the date, the selected slot and the
\* mapped band, instrument and query-type segments, joined in this order;
\* another query type, everything else the same, changes the final segment
\* only, and to a different segment.
C8_DirectoryPath ==
    Searched =>
        /\ results[1].directory = Stem \o queries[sel.query]
        /\ \A q \in DOMAIN queries :
             /\ \A i \in 1..Len(queries[q]) : queries[q][i] # "/"
             /\ q # sel.query =>
                  /\ directory(root, sel.date, results[1].time, sel.band, sel.instrument, q)
                       = Stem \o queries[q]
                  /\ queries[q] # queries[sel.query]

\* A search with the band, the instrument and the query type all changed from
\* their initial values.
C8_Witness ==
    /\ Searched
    /\ sel.band = band_list[2]
    /\ sel.instrument = instrument_list[2]
    /\ sel.query = query_list[3]
    /\ results[1].directory = Stem \o <<"p", "i">>

\* Whether the directory shown holds the file of this name.
Holds(name) == (results[1].directory \o <<"/">> \o name) \in fs

\* C9: search() raises no exception; every definition file of the directory
\* whose sidecar is absent gets a row with a submit action for that file and
\* the nine metadata fields empty; only definition files get rows, one each.
C9_MissingSidecar ==
    Searched =>
        LET rows == results[1].rows
        IN /\ last.error = None
           /\ \A i \in 1..MaxMsbs :
                (Holds(XmlName(i)) /\ ~Holds(InfoName(i))) =>
                   \E k \in 1..Len(rows) :
                      /\ rows[k].description =
                           [file |-> XmlName(i), coordstype |-> "", ra |-> "", dec |-> "",
                            az |-> "", airmass |-> "", type |-> "", timeest |-> "",
                            remaining |-> "", msbid |-> ""]
                      /\ rows[k].command.file = results[1].directory \o <<"/">> \o XmlName(i)
           /\ \A k \in 1..Len(rows) :
                \E i \in 1..MaxMsbs : rows[k].description.file = XmlName(i) /\ Holds(XmlName(i))
           /\ Len(rows) = Cardinality({ i \in 1..MaxMsbs : Holds(XmlName(i)) })

\* A directory holding a definition file without sidecar and the sidecar of
\* another observation: one row, blank.
C9_Witness ==
    /\ Searched
    /\ Holds(XmlName(1)) /\ ~Holds(InfoName(1))
    /\ Holds(InfoName(2)) /\ ~Holds(XmlName(2))
    /\ Len(results[1].rows) = 1
    /\ results[1].rows[1].description.msbid = ""

\* C10: the submit action of row i calls send_to_queue with the definition
\* file shown in row i, whatever was pressed before.
C10_RowCallback ==
    Sent =>
        LET shown == last.frame.directory \o <<"/">> \o last.frame.rows[last.row].description.file
        IN /\ last.xmlfile = shown
           /\ last.calls[1][2] = shown

\* The first of two rows was pressed.
C10_Witness ==
    /\ Sent
    /\ Len(last.frame.rows) = 2
    /\ last.row = 1
    /\ last.xmlfile = last.frame.directory \o <<"/">> \o XmlName(1)

====
